---- MODULE Spec2Model ----
(***************************************************************************)
(* corepy runtime core: the profiler front end (corepy/profiler/core.py), *)
(* the compiled profiler state it drives, and tensor construction with    *)
(* backend selection (corepy/tensor.py), the tensor operations and the    *)
(* policy store and dispatch explanation behind corepy/backend, and the   *)
(* report analysis and export of the profiler front end.                  *)
(***************************************************************************)
EXTENDS Integers, Sequences, FiniteSets, TLC

(***************************************************************************)
(* Bounds                                                                  *)
(***************************************************************************)
\* longest sequence of profiler API calls explored
MaxLog == 5
\* deepest nesting of ProfileContext scopes explored
MaxDepth == 2
\* longest flat list (and bytes object) a tensor is built from
MaxElems == 17
\* largest side of a nested (2-D) list a tensor is built from
MaxSide == 5
\* most kernel calls recorded while tensor operations are explored
MaxRecorded == 1
\* most kernel calls behind a snapshot handed to the analysis and export
MaxEvents == 2
\* most calls made in one behaviour of the recorder specification
MaxCalls == 4
\* most steps the two threads take together
MaxThreadSteps == 4

(***************************************************************************)
(* Values                                                                  *)
(***************************************************************************)
None == "None"
\* operation names recorded by the kernels
OpNames == {"add", "mul"}
\* labels given to `with ProfileContext(name)` blocks
Labels == {"scope_a", "scope_b"}
\* names of functions decorated with @profile_operation
Funcs == {"my_custom_op"}
\* durations (ms) a kernel call may take
Durations == {1, 2}

RECURSIVE SumOver(_, _)
SumOver(S, f) ==
    IF S = {} THEN 0
    ELSE LET x == CHOOSE y \in S : TRUE
         IN  f[x] + SumOver(S \ {x}, f)

Last(s) == s[Len(s)]
Front(s) == SubSeq(s, 1, Len(s) - 1)

\* floating-point values, kept exact as fractions with a positive denominator
Ratio(n, d) == [num |-> n, den |-> d]
RatGT(x, y) == x.num * y.den > y.num * x.den
RatEq(x, y) == x.num * y.den = y.num * x.den
RatDiv(x, y) == Ratio(x.num * y.den, x.den * y.num)

\* the order in which a dict with the keys S is iterated
RECURSIVE KeyOrder(_)
KeyOrder(S) ==
    IF S = {} THEN <<>>
    ELSE LET x == CHOOSE y \in S : TRUE
         IN  <<x>> \o KeyOrder(S \ {x})

EmptyDict == [k \in {} |-> 0]
\* d.get(k, default)
Get(d, k, default) == IF k \in DOMAIN d THEN d[k] ELSE default

VARIABLES
    profiler,   \* state held by the compiled extension: flag, table, context
    scopes,     \* labels of the ProfileContext blocks the interpreter is inside
    pending,    \* an exception is propagating out of a scope body
    log         \* history of the API calls made so far

pvars == <<profiler, scopes, pending, log>>

VARIABLES
    policy,      \* PolicyStore: the active BackendPolicy, as the integer stored
    device_info, \* the session's DeviceInfo, built once at start
    call,        \* the call under study, its arguments, the policy it ran under
    tensor,      \* what Tensor(...) produced: a tensor or an exception
    selection    \* what select_backend returned or raised

svars == <<policy, device_info, call, tensor, selection>>

VARIABLES
    explanation, \* DispatchExplanation: the single slot the extension keeps
    operands,    \* the two operands the tensor operations are applied to
    outcome,     \* the most recent tensor operation and what it produced
    shown,       \* what explain_last_dispatch() returned, if it was just called
    asked        \* the policy passed to the most recent set_backend_policy

dvars == <<explanation, operands, outcome, shown, asked>>

VARIABLES
    rust_available, \* whether the compiled extension could be imported
    analysis,       \* the most recent analysis or export call and its result
    file            \* what is stored at the export path, if anything

avars == <<rust_available, analysis, file>>

VARIABLES
    thread_context  \* the label each thread's own context cell holds

tvars == <<thread_context>>

vars == <<profiler, scopes, pending, log,
          policy, device_info, call, tensor, selection,
          explanation, operands, outcome, shown, asked,
          rust_available, analysis, file, thread_context>>

(***************************************************************************)
(* The compiled profiler (corepy._corepy_rust).                            *)
(***************************************************************************)
EmptyTable == [k \in {} |-> 0]

_enable_profiling(p) == [p EXCEPT !.enabled = TRUE]

_disable_profiling(p) == [p EXCEPT !.enabled = FALSE]

_clear_profile(p) ==
    [p EXCEPT !.table = EmptyTable, !.observed = EmptyTable]

_set_profile_context(p, ctx) == [p EXCEPT !.context = ctx]

\* the extension as loaded: Disabled, nothing recorded, no scope entered
NewProfiler ==
    [enabled |-> FALSE, table |-> EmptyTable, observed |-> EmptyTable,
     context |-> None]

Min(a, b) == IF a <= b THEN a ELSE b
Max(a, b) == IF a >= b THEN a ELSE b

\* the backends observed for one name, in first-seen order, with their counts
Observe(backends, backend) ==
    IF \E i \in 1..Len(backends) : backends[i].backend = backend
    THEN [i \in 1..Len(backends) |->
             IF backends[i].backend = backend
             THEN [backends[i] EXCEPT !.count = @ + 1]
             ELSE backends[i]]
    ELSE Append(backends, [backend |-> backend, count |-> 1])

\* variant: among the most frequent backends the one seen last wins
PrimaryOfLastSeen(backends) ==
    backends[CHOOSE i \in 1..Len(backends) :
                \A j \in 1..Len(backends) :
                    \/ backends[j].count < backends[i].count
                    \/ backends[j].count = backends[i].count /\ j <= i].backend

\* the most frequent backend; among the most frequent, the one seen first
PrimaryOf(backends) ==
    backends[CHOOSE i \in 1..Len(backends) :
                \A j \in 1..Len(backends) :
                    \/ backends[j].count < backends[i].count
                    \/ backends[j].count = backends[i].count /\ i <= j].backend

\* record(op_name, duration, backend): short-circuits when Disabled
record(p, op_name, duration, backend) ==
    IF ~p.enabled THEN p
    ELSE LET key == <<op_name, p.context>>
             old == IF key \in DOMAIN p.table
                    THEN p.table[key]
                    ELSE [count |-> 0, total_time |-> 0,
                          min_time |-> duration, max_time |-> duration]
             seen == IF op_name \in DOMAIN p.observed
                     THEN p.observed[op_name] ELSE <<>>
             new == [old EXCEPT !.count = @ + 1, !.total_time = @ + duration,
                                !.min_time = Min(@, duration),
                                !.max_time = Max(@, duration)]
         IN  [p EXCEPT !.table =
                 [k \in (DOMAIN p.table) \cup {key} |->
                     IF k = key THEN new ELSE p.table[k]],
                       !.observed =
                 [n \in (DOMAIN p.observed) \cup {op_name} |->
                     IF n = op_name THEN Observe(seen, backend)
                     ELSE p.observed[n]]]

\* identifier of the profiling session, part of every snapshot
SessionId == "session-1"

\* variant: the share is left as a fraction of one
PercentOfAsFraction(total, grand) ==
    IF grand = 0 THEN Ratio(0, 1) ELSE Ratio(total, grand)

\* total over the sum of all totals, in percent
PercentOf(total, grand) ==
    IF grand = 0 THEN Ratio(0, 1) ELSE Ratio(100 * total, grand)

\* the smallest of the values f takes on the non-empty set S
LeastOver(S, f) == f[CHOOSE x \in S : \A y \in S : f[x] <= f[y]]
GreatestOver(S, f) == f[CHOOSE x \in S : \A y \in S : f[x] >= f[y]]

\* get_profile_report(ctx): snapshot of the table, restricted to ctx if given
_get_profile_report(p, ctx) ==
    LET keys  == {k \in DOMAIN p.table : ctx = None \/ k[2] = ctx}
        names == {k[1] : k \in keys}
        of(n) == {k \in keys : k[1] = n}
        cnt   == [k \in keys |-> p.table[k].count]
        tot   == [k \in keys |-> p.table[k].total_time]
        grand == SumOver(keys, tot)
    IN  [metadata |-> [session_id |-> SessionId],
         operations |-> [n \in names |->
                            [operation |-> n,
                             count |-> SumOver(of(n), cnt),
                             total_time_ms |-> SumOver(of(n), tot),
                             avg_time_ms |-> Ratio(SumOver(of(n), tot),
                                                   SumOver(of(n), cnt)),
                             min_time_ms |->
                                 LeastOver(of(n),
                                     [k \in keys |-> p.table[k].min_time]),
                             max_time_ms |->
                                 GreatestOver(of(n),
                                     [k \in keys |-> p.table[k].max_time]),
                             primary_backend |->
                                 PrimaryOf(p.observed[n]),
                             percent_total |->
                                 PercentOf(SumOver(of(n), tot), grand)]],
         total_time_ms |-> grand]

(***************************************************************************)
(* corepy/profiler/core.py                                                 *)
(***************************************************************************)
\* variant: the wrapper binds the wrong extension function
enable_profiling_wrong(p) == _disable_profiling(p)

enable_profiling(p) == _enable_profiling(p)

\* variant: the call flips the flag
disable_profiling_toggle(p) == [p EXCEPT !.enabled = ~@]

\* variant: the wrapper binds the wrong extension function
disable_profiling_wrong(p) == _enable_profiling(p)

disable_profiling(p) == _disable_profiling(p)

\* variant: the wrapper resets the flag instead of the table
clear_profile_flag_only(p) == _disable_profiling(p)

\* variant: the wrapper resets the flag along with the table
clear_profile_and_disable(p) == _disable_profiling(_clear_profile(p))

\* variant: the records are kept with their numbers reset
clear_profile_zero_counts(p) ==
    [p EXCEPT !.table = [k \in DOMAIN p.table |->
                            [count |-> 0, total_time |-> 0,
                             min_time |-> 0, max_time |-> 0]]]

clear_profile(p) == _clear_profile(p)

\* format 'dict' parses the extension's JSON, 'json' returns it as is
profile_report(p, context, format) == _get_profile_report(p, context)

ProfileContext__enter__(p, name) == _set_profile_context(p, name)

\* variant: the label is released on normal exit only
ProfileContext__exit__normal_only(p, exc) ==
    [state |-> IF exc THEN p ELSE _set_profile_context(p, None),
     suppress |-> FALSE]

\* returns nothing, so an exception raised in the body is not suppressed
ProfileContext__exit__(p, exc) ==
    [state |-> _set_profile_context(p, None), suppress |-> FALSE]

\* wrapper of @profile_operation: the scope is named after the function
profile_operation_enter(p, func) == ProfileContext__enter__(p, func)

(***************************************************************************)
(* Kernel call made by a tensor operation                                  *)
(***************************************************************************)
tensor_op(p, op, duration) == record(p, op, duration, "CPU")

(***************************************************************************)
(* Python values                                                           *)
(***************************************************************************)
PyNone == [t |-> "NoneType", v |-> ""]
Str(x) == [t |-> "str", v |-> x]
Float(x) == [t |-> "float", v |-> x]
List(items) == [t |-> "list", v |-> items]
Tuple(items) == [t |-> "tuple", v |-> items]
\* a memoryview, by its shape
MemoryView(shape) == [t |-> "memoryview", v |-> shape]
Bytes(n) == [t |-> "bytes", v |-> n]
\* a numpy array, by its shape
NdArray(shape) == [t |-> "ndarray", v |-> shape]
\* an exception of the named class leaving the call
Raised(x) == [t |-> "raised", v |-> x]
\* bool(x) for the argument values used here
Truthy(x) == x # PyNone /\ x # Str("")

\* str.lower() on the strings used as backend names
Lower(x) ==
    CASE x \in {"CPU", "Cpu", "cpu"} -> "cpu"
      [] x \in {"GPU", "Gpu", "gpu"} -> "gpu"
      [] OTHER -> x

\* `sub in x` on the strings used as device names
Contains(x, sub) ==
    <<x, sub>> \in {<<"cpu", "cpu">>, <<"cpu:0", "cpu">>,
                    <<"gpu", "gpu">>, <<"gpu:1", "gpu">>,
                    <<"cuda", "cuda">>, <<"cuda:0", "cuda">>}

(***************************************************************************)
(* corepy/backend: types, policy, selector                                 *)
(***************************************************************************)
\* BackendType members, by value
BackendTypeValues == {"cpu", "gpu"}
Member(x) == [t |-> "BackendType", v |-> x]
CPU == Member("cpu")
GPU == Member("gpu")

OperationTypes == {"COMPUTE_VECTOR", "COMPUTE_MATRIX", "MEMORY_BOUND", "SCALAR"}

BackendPolicy == [DEFAULT |-> 0, OPENBLAS |-> 1, BLAS |-> 2, CUDA |-> 3]
PolicyValues == {BackendPolicy.DEFAULT, BackendPolicy.OPENBLAS,
                 BackendPolicy.BLAS, BackendPolicy.CUDA}

\* variant: the policy passed is not the one stored
set_backend_policy_default(pol) == BackendPolicy.DEFAULT

\* _corepy_rust.set_backend_policy(int(policy))
set_backend_policy(pol) == pol

get_backend_policy(stored) == stored

\* element count below which the DEFAULT heuristic always answers CPU
SizeThreshold == 16

OperationProperties(element_count, shape, dtype_bytes) ==
    [element_count |-> element_count, shape |-> shape, dtype_bytes |-> dtype_bytes]

Available(dev, b) == b = CPU \/ (b = GPU /\ dev.has_gpu)

DefaultHeuristic(kind, props, dev) ==
    IF props.element_count < SizeThreshold THEN CPU
    ELSE IF dev.has_gpu /\ kind \in dev.gpu_kinds THEN GPU
    ELSE CPU

\* the outcomes select_backend may have: a BackendType member or an error.
\* Policy CUDA without a CUDA device is left open between failing and
\* falling back to the CPU.
select_backend(kind, props, dev, requested_backend, pol) ==
    IF requested_backend # PyNone
    THEN IF Available(dev, requested_backend)
         THEN {requested_backend}
         ELSE {Raised("DeviceNotFoundError")}
    ELSE IF pol = BackendPolicy.DEFAULT
         THEN {DefaultHeuristic(kind, props, dev)}
    ELSE IF pol \in {BackendPolicy.OPENBLAS, BackendPolicy.BLAS}
         THEN IF kind = "COMPUTE_MATRIX"
              THEN {CPU}
              ELSE {DefaultHeuristic(kind, props, dev)}
    ELSE IF dev.has_gpu THEN {GPU}
         ELSE {Raised("DeviceNotFoundError"), CPU}

(***************************************************************************)
(* corepy/tensor.py: Tensor.__init__                                       *)
(***************************************************************************)
\* while isinstance(curr, (list, tuple)) and len(curr) > 0: ...; curr = curr[0]
RECURSIVE ListShape(_)
ListShape(curr) ==
    IF curr.t \in {"list", "tuple"} /\ Len(curr.v) > 0
    THEN <<Len(curr.v)>> \o ListShape(curr.v[1])
    ELSE <<>>

\* variant: the running product starts at the byte width instead of 1
RECURSIVE ElementCountBytes(_)
ElementCountBytes(shape) ==
    IF shape = <<>> THEN 4 ELSE Head(shape) * ElementCountBytes(Tail(shape))

\* count = 1; for dim in shape: count *= dim
RECURSIVE ElementCount(_)
ElementCount(shape) ==
    IF shape = <<>> THEN 1 ELSE Head(shape) * ElementCount(Tail(shape))

ShapeOf(data) ==
    CASE data.t \in {"list", "tuple"} -> ListShape(data)
      [] data.t = "bytes" -> <<data.v>>
      [] data.t = "memoryview" -> data.v
      [] data.t = "ndarray" -> data.v
      [] OTHER -> <<1>>

\* data.size of a numpy array is the product of its shape
CountOf(data) ==
    CASE data.t \in {"list", "tuple"} -> ElementCount(ListShape(data))
      [] data.t = "bytes" -> data.v
      [] data.t = "memoryview" -> ElementCount(data.v)
      [] data.t = "ndarray" -> ElementCount(data.v)
      [] OTHER -> 1

\* variant: a backend given as a BackendType member is dropped
ResolveRequestedStrOnly(backend, device) ==
    IF Truthy(device)
    THEN IF Contains(device.v, "cuda") \/ Contains(device.v, "gpu") THEN GPU
         ELSE IF Contains(device.v, "cpu") THEN CPU
         ELSE PyNone
    ELSE IF Truthy(backend) /\ backend.t = "str"
    THEN IF Lower(backend.v) \in BackendTypeValues
         THEN Member(Lower(backend.v))
         ELSE Raised("ValueError")
    ELSE PyNone

\* the requested backend; BackendType(name) raises ValueError for an unknown name
ResolveRequested(backend, device) ==
    IF Truthy(device)
    THEN IF Contains(device.v, "cuda") \/ Contains(device.v, "gpu") THEN GPU
         ELSE IF Contains(device.v, "cpu") THEN CPU
         ELSE PyNone
    ELSE IF Truthy(backend)
    THEN IF backend.t = "str"
         THEN IF Lower(backend.v) \in BackendTypeValues
              THEN Member(Lower(backend.v))
              ELSE Raised("ValueError")
         ELSE backend
    ELSE PyNone

Failed(err) ==
    [ok |-> FALSE, error |-> err, shape |-> <<>>, element_count |-> 0,
     backend_type |-> PyNone, device |-> PyNone]

\* variant: placement is probed as a matrix operation
Tensor__init__as_matrix(data, backend, device, dev, pol) ==
    LET shape == ShapeOf(data)
        count == CountOf(data)
        requested_backend == ResolveRequested(backend, device)
        op_props == OperationProperties(count, shape, 4)
    IN  IF requested_backend.t = "raised" THEN {Failed(requested_backend.v)}
        ELSE {IF r.t = "raised" THEN Failed(r.v)
              ELSE [ok |-> TRUE, error |-> "", shape |-> shape,
                    element_count |-> count, backend_type |-> r,
                    device |-> device] :
                 r \in select_backend("COMPUTE_MATRIX", op_props, dev,
                                      requested_backend, pol)}

\* the outcomes of Tensor(data, backend=backend, device=device)
Tensor__init__(data, backend, device, dev, pol) ==
    LET shape == ShapeOf(data)
        count == CountOf(data)
        requested_backend == ResolveRequested(backend, device)
        op_props == OperationProperties(count, shape, 4)
    IN  IF requested_backend.t = "raised" THEN {Failed(requested_backend.v)}
        ELSE {IF r.t = "raised" THEN Failed(r.v)
              ELSE [ok |-> TRUE, error |-> "", shape |-> shape,
                    element_count |-> count, backend_type |-> r,
                    device |-> device] :
                 r \in select_backend("COMPUTE_VECTOR", op_props, dev,
                                      requested_backend, pol)}

(***************************************************************************)
(* corepy/profiler/core.py: the report with and without the extension      *)
(***************************************************************************)
\* json.loads of the string the fallback _get_profile_report returns
MockReport ==
    [metadata |-> [session_id |-> "mock"], operations |-> EmptyDict,
     total_time_ms |-> 0]

\* profile_report(context, 'dict') with the extension or with the fallback
current_report(rust, p, context) ==
    IF rust THEN profile_report(p, context, "dict") ELSE MockReport

(***************************************************************************)
(* corepy/profiler/core.py: detect_bottlenecks, get_recommendations,       *)
(* detect_regressions.  A returned list is a sequence of records.          *)
(***************************************************************************)
\* what a call gives back: the value returned, or the exception raised
Returned(v) == [error |-> "", value |-> v]
Threw(e) == [error |-> e, value |-> <<>>]

\* the values of report['operations'] in iteration order
OperationsOf(report) ==
    LET ops == Get(report, "operations", EmptyDict)
        order == KeyOrder(DOMAIN ops)
    IN  [i \in 1..Len(order) |-> ops[order[i]]]

\* op.get('percent_total', 0.0) / 100.0
ShareOf(op) == RatDiv(Get(op, "percent_total", Ratio(0, 1)), Ratio(100, 1))

BottleneckEntry(op) ==
    [operation |-> op.operation,
     percent_total |-> op.percent_total,
     time_ms |-> op.total_time_ms,
     severity |-> IF RatGT(ShareOf(op), Ratio(1, 2)) THEN "CRITICAL" ELSE "HIGH",
     reason |-> <<"Takes ", Ratio(ShareOf(op).num * 100, ShareOf(op).den),
                  "% of execution time">>,
     suggestion |-> "Check input size or switch backend"]

\* variant: a share equal to the threshold is reported too
detect_bottlenecks_inclusive(report, threshold) ==
    LET Over(op) == ~RatGT(threshold, ShareOf(op))
        kept == SelectSeq(OperationsOf(report), Over)
    IN  Returned([i \in 1..Len(kept) |-> BottleneckEntry(kept[i])])

detect_bottlenecks(report, threshold) ==
    LET Over(op) == RatGT(ShareOf(op), threshold)
        kept == SelectSeq(OperationsOf(report), Over)
    IN  Returned([i \in 1..Len(kept) |-> BottleneckEntry(kept[i])])

Recommendation(op_data) ==
    [priority |-> "HIGH",
     title |-> "Enable GPU for Matrix Multiplication",
     description |-> <<"Matmul is taking ", op_data.avg_time_ms, "ms on CPU.">>,
     estimated_speedup |-> "10x-50x",
     code_example |-> "x.to('cuda')"]

\* variant: the backend of the record is not looked at
get_recommendations_any_backend(report) ==
    LET Slow(op_data) == /\ op_data.operation = "matmul"
                         /\ RatGT(op_data.avg_time_ms, Ratio(10, 1))
        kept == SelectSeq(OperationsOf(report), Slow)
    IN  Returned([i \in 1..Len(kept) |-> Recommendation(kept[i])])

get_recommendations(report) ==
    LET Slow(op_data) == /\ op_data.operation = "matmul"
                         /\ op_data.primary_backend = "CPU"
                         /\ RatGT(op_data.avg_time_ms, Ratio(10, 1))
        kept == SelectSeq(OperationsOf(report), Slow)
    IN  Returned([i \in 1..Len(kept) |-> Recommendation(kept[i])])

RegressionEntry(base_op, curr_op) ==
    [operation |-> curr_op.operation,
     baseline_ms |-> base_op.avg_time_ms,
     actual_ms |-> curr_op.avg_time_ms,
     slowdown_factor |-> RatDiv(curr_op.avg_time_ms, base_op.avg_time_ms),
     causes |-> <<"Increased data size", "Change in algorithm">>]

\* variant: baseline['operations'] is read without a default
detect_regressions_strict(current, baseline, threshold) ==
    IF "operations" \notin DOMAIN baseline THEN Threw("KeyError")
    ELSE LET Slower(curr_op) ==
                 /\ curr_op.operation \in DOMAIN baseline.operations
                 /\ baseline.operations[curr_op.operation].avg_time_ms.num > 0
                 /\ RatGT(RatDiv(curr_op.avg_time_ms,
                                 baseline.operations[curr_op.operation].avg_time_ms),
                          threshold)
             kept == SelectSeq(OperationsOf(current), Slower)
         IN  Returned([i \in 1..Len(kept) |->
                 RegressionEntry(baseline.operations[kept[i].operation], kept[i])])

\* variant: a ratio equal to the threshold is reported too
detect_regressions_inclusive(current, baseline, threshold) ==
    LET base == Get(baseline, "operations", EmptyDict)
        Slower(curr_op) ==
            /\ curr_op.operation \in DOMAIN base
            /\ base[curr_op.operation].avg_time_ms.num > 0
            /\ ~RatGT(threshold,
                      RatDiv(curr_op.avg_time_ms,
                             base[curr_op.operation].avg_time_ms))
        kept == SelectSeq(OperationsOf(current), Slower)
    IN  Returned([i \in 1..Len(kept) |->
            RegressionEntry(base[kept[i].operation], kept[i])])

detect_regressions(current, baseline, threshold) ==
    LET base == Get(baseline, "operations", EmptyDict)
        Slower(curr_op) ==
            /\ curr_op.operation \in DOMAIN base
            /\ base[curr_op.operation].avg_time_ms.num > 0
            /\ RatGT(RatDiv(curr_op.avg_time_ms,
                            base[curr_op.operation].avg_time_ms),
                     threshold)
        kept == SelectSeq(OperationsOf(current), Slower)
    IN  Returned([i \in 1..Len(kept) |->
            RegressionEntry(base[kept[i].operation], kept[i])])

(***************************************************************************)
(* corepy/profiler/core.py: export_profile, and the json module            *)
(***************************************************************************)
\* the text of one operation entry: its members in iteration order
DumpOperation(op) ==
    LET order == KeyOrder(DOMAIN op)
    IN  [i \in 1..Len(order) |-> <<order[i], op[order[i]]>>]

\* json.dump(report, f, indent=indent): the members of the document
json_dump(report, indent) ==
    LET ops == report.operations
        order == KeyOrder(DOMAIN ops)
    IN  [indent |-> indent,
         members |->
           <<<<"metadata", <<<<"session_id", report.metadata.session_id>>>>>>,
             <<"operations",
               [i \in 1..Len(order) |-> <<order[i], DumpOperation(ops[order[i]])>>]>>,
             <<"total_time_ms", report.total_time_ms>>>>]

\* the dict whose members are the pairs of seq
LoadObject(seq) ==
    [k \in {seq[i][1] : i \in 1..Len(seq)} |->
        seq[CHOOSE i \in 1..Len(seq) : seq[i][1] = k][2]]

\* json.load(f) of a document written by json_dump
json_load(text) ==
    LET top == LoadObject(text.members)
        ops == LoadObject(top.operations)
    IN  [metadata |-> LoadObject(top.metadata),
         operations |-> [n \in DOMAIN ops |-> LoadObject(ops[n])],
         total_time_ms |-> top.total_time_ms]

CsvKeys == <<"operation", "count", "total_time_ms", "avg_time_ms",
             "min_time_ms", "max_time_ms", "primary_backend", "percent_total">>

\* variant: writer.writeheader() is left out
csv_write_rows_only(ops) ==
    [i \in 1..Len(ops) |->
        [j \in 1..Len(CsvKeys) |-> Get(ops[i], CsvKeys[j], 0)]]

\* csv.DictWriter: the header, then one row per operation
csv_write(ops) ==
    <<CsvKeys>> \o [i \in 1..Len(ops) |->
                      [j \in 1..Len(CsvKeys) |-> Get(ops[i], CsvKeys[j], 0)]]

\* the events list is built and dropped; the report itself is returned
_convert_to_speedscope(report) ==
    LET ops == OperationsOf(report)
        events == [i \in 1..Len(ops) |->
                      [type |-> "O", frame |-> i - 1,
                       at |-> SumOver(1..(i - 1),
                                      [j \in 1..Len(ops) |->
                                          ops[j].total_time_ms])]]
    IN  report

File(text) == [t |-> "file", v |-> text]

\* variant: the context filter is dropped
export_profile_unfiltered(rust, p, stored, format, context) ==
    LET report == current_report(rust, p, None)
    IN  CASE format = "json" -> File(json_dump(report, 2))
          [] format = "csv" ->
                IF OperationsOf(report) = <<>> THEN stored
                ELSE File(csv_write(OperationsOf(report)))
          [] format = "flamegraph" ->
                File(json_dump(_convert_to_speedscope(report), 0))
          [] OTHER -> stored

\* what is at the path after export_profile(filename, format, context)
export_profile(rust, p, stored, format, context) ==
    LET report == current_report(rust, p, context)
    IN  CASE format = "json" -> File(json_dump(report, 2))
          [] format = "csv" ->
                IF OperationsOf(report) = <<>> THEN stored
                ELSE File(csv_write(OperationsOf(report)))
          [] format = "flamegraph" ->
                File(json_dump(_convert_to_speedscope(report), 0))
          [] OTHER -> stored

Flat(n) == List([i \in 1..n |-> Float(1)])
Nested(m, n) == List([i \in 1..m |-> Flat(n)])

(***************************************************************************)
(* The dispatch side of the compiled extension: every kernel call routes   *)
(* the operation, overwrites the explanation slot and records the call.    *)
(***************************************************************************)
\* the slot before any operation was dispatched
NoDispatch == [op |-> "", backend |-> "", reason |-> ""]

\* name under which the vendor math-library CPU path is reported
VendorMath == "OpenBLAS"

KindOf(op) == IF op = "matmul" THEN "COMPUTE_MATRIX" ELSE "COMPUTE_VECTOR"

Reason(op, pol) ==
    IF pol \in {BackendPolicy.OPENBLAS, BackendPolicy.BLAS} /\ op = "matmul"
    THEN "policy: vendor math library"
    ELSE IF pol = BackendPolicy.CUDA THEN "policy: cuda"
    ELSE "heuristic: size and kind"

\* the outcomes of one kernel call on n elements: an error that leaves the
\* extension as it was, or the path taken with the slot overwritten and the
\* call recorded
kernel_dispatch(op, n, dev, pol, slot, p) ==
    {IF r.t = "raised"
     THEN [error |-> r.v, explanation |-> slot, profiler |-> p, path |-> ""]
     ELSE LET path == IF pol \in {BackendPolicy.OPENBLAS, BackendPolicy.BLAS}
                         /\ op = "matmul"
                      THEN VendorMath ELSE r.v
          IN  [error |-> "",
               explanation |-> [op |-> op, backend |-> path,
                                reason |-> Reason(op, pol)],
               profiler |-> record(p, op, 1,
                                   IF r = GPU THEN "GPU" ELSE "CPU"),
               path |-> path] :
        r \in select_backend(KindOf(op), OperationProperties(n, <<n>>, 4),
                             dev, PyNone, pol)}

\* "<op> -> <backend> (<reason>)", as the parts the string is made of
_explain_last_dispatch(slot) ==
    <<slot.op, " -> ", slot.backend, " (", slot.reason, ")">>

\* corepy/backend/__init__.py
explain_last_dispatch(slot) == _explain_last_dispatch(slot)

(***************************************************************************)
(* corepy/ops/math.py and corepy/backend/dispatch.py: the Python kernels   *)
(***************************************************************************)
\* @register_kernel(name, BackendType.CPU) stubs
Registered == {<<"add", CPU>>, <<"matmul", CPU>>, <<"all", CPU>>}

\* the stubs of add and matmul raise; no kernel is registered for the GPU
dispatch_kernel(op, backend) ==
    IF <<op, backend>> \in Registered
    THEN Raised("NotImplementedError")
    ELSE Raised("BackendError")

(***************************************************************************)
(* corepy/tensor.py: Tensor._binary_op and Tensor.matmul                   *)
(***************************************************************************)
IsTensor(x) == "ok" \in DOMAIN x

\* what one tensor operation leaves behind: its result (a tensor or the
\* exception raised), the extension's slot and profiler, the path taken
Outcome(out, slot, p, path) ==
    [out |-> out, explanation |-> slot, profiler |-> p, path |-> path]

\* the kernel calls that went through, each followed by Tensor(data, backend=...)
Wrapped(kernels, data, backend, dev, pol, slot, p) ==
    UNION {IF k.error # ""
           THEN {Outcome(Failed(k.error), k.explanation, k.profiler, "")}
           ELSE {Outcome(t, k.explanation, k.profiler, k.path) :
                    t \in Tensor__init__(data, backend, PyNone, dev, pol)} :
             k \in kernels}

\* variant: every operation calls ffi.tensor_add_f32
binary_ffi_add_only(op) == "add"

\* if op == "add": ffi.tensor_add_f32(...) elif op == "sub": ...
binary_ffi(op) == op

\* variant: the product is computed by ffi.tensor_mul_f32
matmul_ffi_elementwise(ndim) == "mul"

\* ffi.tensor_matmul_f32 (1-D) and ffi.tensor_matmul_2d_f32 (2-D)
matmul_ffi(ndim) == "matmul"

\* self._binary_op(op, other) once other is a Tensor or something else
BinaryOn(self, other, op, dev, pol, slot, p) ==
    IF ~IsTensor(other) THEN {Outcome(Failed("ValueError"), slot, p, "")}
    ELSE IF ~other.ok THEN {Outcome(other, slot, p, "")}
    ELSE IF other.backend_type # self.backend_type
    THEN {Outcome(Failed("BackendError"), slot, p, "")}
    ELSE IF self.backend_type = CPU
    THEN IF self.element_count # other.element_count
         THEN {Outcome(Failed("ValueError"), slot, p, "")}
         ELSE Wrapped(kernel_dispatch(binary_ffi(op), self.element_count,
                                      dev, pol, slot, p),
                      Flat(self.element_count), self.backend_type,
                      dev, pol, slot, p)
    ELSE {Outcome(Failed(dispatch_kernel(op, self.backend_type).v), slot, p, "")}

\* a scalar operand is first made a tensor of self's size on self's device
Tensor__binary_op(self, other, op, dev, pol, slot, p) ==
    LET others == IF ~IsTensor(other) /\ other.t = "float"
                  THEN Tensor__init__(Flat(self.element_count), PyNone,
                                      self.device, dev, pol)
                  ELSE {other}
    IN  UNION {BinaryOn(self, o, op, dev, pol, slot, p) : o \in others}

Tensor_matmul(self, other, dev, pol, slot, p) ==
    IF ~IsTensor(other) THEN {Outcome(Failed("ValueError"), slot, p, "")}
    ELSE IF self.backend_type = CPU
            /\ Len(self.shape) = 1 /\ Len(other.shape) = 1
    THEN IF self.element_count # other.element_count
         THEN {Outcome(Failed("ValueError"), slot, p, "")}
         ELSE Wrapped(kernel_dispatch(matmul_ffi(1), self.element_count,
                                      dev, pol, slot, p),
                      Float(0), self.backend_type, dev, pol, slot, p)
    ELSE IF self.backend_type = CPU
            /\ Len(self.shape) = 2 /\ Len(other.shape) = 2
    THEN IF self.shape[2] # other.shape[1]
         THEN {Outcome(Failed("ValueError"), slot, p, "")}
         ELSE Wrapped(kernel_dispatch(matmul_ffi(2), self.element_count,
                                      dev, pol, slot, p),
                      NdArray(<<self.shape[1], other.shape[2]>>),
                      self.backend_type, dev, pol, slot, p)
    ELSE {Outcome(Failed(dispatch_kernel("matmul", self.backend_type).v),
                  slot, p, "")}

(***************************************************************************)
(* Inputs of the selector specification                                    *)
(***************************************************************************)

ElementCounts == {0, 1, SizeThreshold - 1, SizeThreshold, MaxElems}

Sides == (MaxSide - 2)..MaxSide

DataValues ==
    {Flat(n) : n \in ElementCounts}
      \cup {Nested(m, n) : m \in Sides, n \in Sides}
      \cup {Bytes(n) : n \in {0, MaxElems}}
      \cup {Float(3)}
      \cup {List(<<Flat(2), Flat(3)>>), List(<<Flat(0)>>),
            List(<<Float(1), Flat(2)>>), Tuple(<<Float(1), Float(1)>>),
            MemoryView(<<2, 3>>), NdArray(<<2, 2>>)}

BackendArgs == {PyNone, Str("cpu"), Str("gpu"), Str("GPU"), Str("tpu"), CPU, GPU}

DeviceArgs == {PyNone, Str(""), Str("cpu"), Str("gpu"), Str("cuda:0"), Str("tpu")}

DeviceInfos ==
    {[has_gpu |-> FALSE, gpu_kinds |-> {}],
     [has_gpu |-> TRUE, gpu_kinds |-> {"COMPUTE_MATRIX"}],
     [has_gpu |-> TRUE, gpu_kinds |-> {"COMPUTE_VECTOR", "COMPUTE_MATRIX"}]}

TensorCalls ==
    {[fn |-> "Tensor", data |-> d, backend |-> b, device |-> dv,
      kind |-> "COMPUTE_VECTOR", element_count |-> 0, requested |-> PyNone,
      done |-> FALSE, policy |-> 0] :
        d \in DataValues, b \in BackendArgs, dv \in DeviceArgs}

SelectCalls ==
    {[fn |-> "select_backend", data |-> PyNone, backend |-> PyNone,
      device |-> PyNone, kind |-> k, element_count |-> n, requested |-> r,
      done |-> FALSE, policy |-> 0] :
        k \in OperationTypes, n \in ElementCounts, r \in {PyNone, CPU, GPU}}

\* the selector at rest, as the profiler specification sees it
SIdle ==
    /\ policy = BackendPolicy.DEFAULT
    /\ device_info = [has_gpu |-> FALSE, gpu_kinds |-> {}]
    /\ call = CHOOSE c \in SelectCalls : TRUE
    /\ tensor = PyNone
    /\ selection = PyNone

\* the policy store starts at DEFAULT; the call to make and the devices of
\* the machine are the inputs
SInit ==
    /\ policy = BackendPolicy.DEFAULT
    /\ device_info \in DeviceInfos
    /\ call \in TensorCalls \cup SelectCalls
    /\ tensor = PyNone
    /\ selection = PyNone

\* set_backend_policy(pol)
SetPolicy ==
    /\ \E pol \in PolicyValues :
          /\ policy' = set_backend_policy(pol)
          /\ asked' = [t |-> "BackendPolicy", v |-> pol]
    /\ shown' = PyNone
    /\ UNCHANGED <<device_info, call, tensor, selection>>

\* Tensor(data, backend=..., device=...)
Construct ==
    /\ call.fn = "Tensor"
    /\ ~call.done
    /\ call' = [call EXCEPT !.done = TRUE, !.policy = get_backend_policy(policy)]
    /\ tensor' \in Tensor__init__(call.data, call.backend, call.device,
                                  device_info, get_backend_policy(policy))
    /\ UNCHANGED <<policy, device_info, selection, shown, asked>>

\* select_backend(kind, props, device_info, requested_backend=...)
Select ==
    /\ call.fn = "select_backend"
    /\ ~call.done
    /\ call' = [call EXCEPT !.done = TRUE, !.policy = get_backend_policy(policy)]
    /\ selection' \in select_backend(call.kind,
                          OperationProperties(call.element_count,
                                              <<call.element_count>>, 4),
                          device_info, call.requested,
                          get_backend_policy(policy))
    /\ UNCHANGED <<policy, device_info, tensor, shown, asked>>

SNext ==
    \/ SetPolicy
    \/ Construct
    \/ Select

(***************************************************************************)
(* Actions of the profiler specification                                   *)
(***************************************************************************)
Entry(op, arg) == [op |-> op, arg |-> arg]

CanStep == Len(log) < MaxLog /\ ~pending

PInit ==
    /\ profiler = NewProfiler
    /\ scopes = <<>>
    /\ pending = FALSE
    /\ log = <<>>

Enable ==
    /\ CanStep
    /\ profiler' = enable_profiling(profiler)
    /\ log' = Append(log, Entry("enable", None))
    /\ UNCHANGED <<scopes, pending>>

Disable ==
    /\ CanStep
    /\ profiler' = disable_profiling(profiler)
    /\ log' = Append(log, Entry("disable", None))
    /\ UNCHANGED <<scopes, pending>>

Clear ==
    /\ CanStep
    /\ profiler' = clear_profile(profiler)
    /\ log' = Append(log, Entry("clear", None))
    /\ UNCHANGED <<scopes, pending>>

Dispatch ==
    /\ CanStep
    /\ \E op \in OpNames, d \in Durations :
          /\ profiler' = tensor_op(profiler, op, d)
          /\ log' = Append(log, Entry("dispatch", op))
    /\ UNCHANGED <<scopes, pending>>

EnterScope ==
    /\ CanStep
    /\ Len(scopes) < MaxDepth
    /\ \E name \in Labels :
          /\ profiler' = ProfileContext__enter__(profiler, name)
          /\ scopes' = Append(scopes, name)
          /\ log' = Append(log, Entry("enter", name))
    /\ UNCHANGED pending

CallDecorated ==
    /\ CanStep
    /\ Len(scopes) < MaxDepth
    /\ \E f \in Funcs :
          /\ profiler' = profile_operation_enter(profiler, f)
          /\ scopes' = Append(scopes, f)
          /\ log' = Append(log, Entry("call", f))
    /\ UNCHANGED pending

\* the body of the innermost scope finishes normally
ExitScope ==
    /\ CanStep
    /\ scopes # <<>>
    /\ profiler' = ProfileContext__exit__(profiler, FALSE).state
    /\ scopes' = Front(scopes)
    /\ log' = Append(log, Entry("exit", Last(scopes)))
    /\ UNCHANGED pending

\* the body of the innermost scope raises: __exit__ runs with the exception
Raise ==
    /\ CanStep
    /\ scopes # <<>>
    /\ LET r == ProfileContext__exit__(profiler, TRUE)
       IN  /\ profiler' = r.state
           /\ pending' = ~r.suppress
    /\ scopes' = Front(scopes)
    /\ log' = Append(log, Entry("raise", Last(scopes)))

\* the exception leaves the next enclosing scope as well
Propagate ==
    /\ pending
    /\ scopes # <<>>
    /\ LET r == ProfileContext__exit__(profiler, TRUE)
       IN  /\ profiler' = r.state
           /\ pending' = ~r.suppress
    /\ scopes' = Front(scopes)
    /\ log' = Append(log, Entry("raise", Last(scopes)))

\* the caller at the current level handles the exception
Catch ==
    /\ pending
    /\ pending' = FALSE
    /\ UNCHANGED <<profiler, scopes, log>>

PNext ==
    \/ Enable
    \/ Disable
    \/ Clear
    \/ Dispatch
    \/ EnterScope
    \/ CallDecorated
    \/ ExitScope
    \/ Raise
    \/ Propagate
    \/ Catch

(***************************************************************************)
(* Actions of the dispatch specification: tensor operations on two         *)
(* operands, policy changes, profiler calls and explain_last_dispatch()    *)
(***************************************************************************)
BinaryOps == {"add", "sub", "mul", "div"}

OperandData == {Flat(2), Nested(2, 2), Nested(4, 4)}

\* the tensors Tensor(data, backend=...) builds on this machine
Built(dev) ==
    {t \in UNION {Tensor__init__(d, b, PyNone, dev, BackendPolicy.DEFAULT) :
                    d \in OperandData, b \in {PyNone, CPU, GPU}} : t.ok}

NoOutcome == [op |-> "", policy |-> 0, out |-> PyNone, path |-> ""]

\* no tensor operation was made yet
DIdle ==
    /\ explanation = NoDispatch
    /\ operands = [a |-> PyNone, b |-> PyNone]
    /\ outcome = NoOutcome
    /\ shown = PyNone
    /\ asked = PyNone

\* the machine and the two operands are the inputs
DInit ==
    /\ policy = BackendPolicy.DEFAULT
    /\ device_info \in DeviceInfos
    /\ call = CHOOSE c \in SelectCalls : TRUE
    /\ tensor = PyNone
    /\ selection = PyNone
    /\ explanation = NoDispatch
    /\ operands \in {[a |-> x, b |-> y] :
                        x \in Built(device_info),
                        y \in Built(device_info) \cup {Float(3)}}
    /\ outcome = NoOutcome
    /\ shown = PyNone
    /\ asked = PyNone

Recorded(p) ==
    SumOver(DOMAIN p.table, [k \in DOMAIN p.table |-> p.table[k].count])

CanRecord == ~profiler.enabled \/ Recorded(profiler) < MaxRecorded

\* the extension and the observer after one tensor operation
Finish(op, o) ==
    /\ explanation' = o.explanation
    /\ profiler' = o.profiler
    /\ outcome' = [op |-> op, policy |-> get_backend_policy(policy),
                   out |-> o.out, path |-> o.path]
    /\ shown' = PyNone
    /\ UNCHANGED <<scopes, pending, log, svars, operands, asked>>

\* a + b, a - b, a * b, a / b
BinaryOp ==
    /\ CanRecord
    /\ \E op \in BinaryOps :
          \E o \in Tensor__binary_op(operands.a, operands.b, op, device_info,
                                     get_backend_policy(policy),
                                     explanation, profiler) :
             Finish(op, o)

\* a.matmul(b)
Matmul ==
    /\ CanRecord
    /\ \E o \in Tensor_matmul(operands.a, operands.b, device_info,
                               get_backend_policy(policy),
                               explanation, profiler) :
          Finish("matmul", o)

\* enable_profiling(), disable_profiling() or clear_profile()
ProfilerCall ==
    /\ profiler' \in {enable_profiling(profiler), disable_profiling(profiler),
                      clear_profile(profiler)}
    /\ shown' = PyNone
    /\ UNCHANGED <<scopes, pending, log, svars,
                   explanation, operands, outcome, asked>>

\* explain_last_dispatch()
Explain ==
    /\ shown' = Str(explain_last_dispatch(explanation))
    /\ UNCHANGED <<pvars, svars, explanation, operands, outcome, asked>>

DNext ==
    \/ SetPolicy /\ UNCHANGED <<pvars, explanation, operands, outcome>>
    \/ BinaryOp
    \/ Matmul
    \/ ProfilerCall
    \/ Explain

(***************************************************************************)
(* Actions of the analysis specification: one snapshot of the profiler,    *)
(* analysed and exported                                                   *)
(***************************************************************************)
EventOn(op, ctx, d, backend) ==
    [op |-> op, ctx |-> ctx, d |-> d, backend |-> backend]

\* a kernel call that ran on the CPU
Event(op, ctx, d) == EventOn(op, ctx, d, "CPU")

\* the kernel calls a snapshot may come from: quick ones on the CPU, and a
\* slow product on either backend
AnalyzeEvents ==
    {Event(op, ctx, d) : op \in {"add", "matmul"}, ctx \in {None, "scope_a"},
                          d \in {1, 3}}
    \cup {EventOn("matmul", None, 10, "CPU"), EventOn("matmul", None, 12, "GPU")}

EventSeqs == UNION {[1..n -> AnalyzeEvents] : n \in 0..MaxEvents}

\* one kernel call, inside `with ProfileContext(ctx)` if ctx is given
RunEvent(p, e) ==
    LET Run(q) == IF e.backend = "CPU" THEN tensor_op(q, e.op, e.d)
                  ELSE record(q, e.op, e.d, e.backend)
    IN  IF e.ctx = None THEN Run(p)
        ELSE ProfileContext__exit__(
                 Run(ProfileContext__enter__(p, e.ctx)), FALSE).state

\* enable_profiling() followed by the kernel calls of seq
RECURSIVE RunEvents(_)
RunEvents(seq) ==
    IF seq = <<>>
    THEN enable_profiling(NewProfiler)
    ELSE RunEvent(RunEvents(Front(seq)), Last(seq))

Thresholds ==
    {Ratio(0, 1), Ratio(1, 5), Ratio(1, 2), Ratio(1, 1), Ratio(6, 5), Ratio(3, 1)}

BaselineRun(seq) == profile_report(RunEvents(seq), None, "dict")

\* baselines handed to detect_regressions: no keys, no operations, the flat
\* name-to-milliseconds shape, and snapshots of earlier sessions
Baselines ==
    <<EmptyDict,
      [operations |-> EmptyDict],
      [add |-> Ratio(1, 1)],
      BaselineRun(<<Event("add", None, 1)>>),
      BaselineRun(<<Event("add", None, 0)>>),
      BaselineRun(<<Event("add", None, 1), Event("matmul", None, 3)>>),
      BaselineRun(<<Event("matmul", None, 1), Event("matmul", None, 3)>>)>>

Formats == {"json", "csv", "flamegraph", "chrome_tracing"}

NoAnalysis == [fn |-> "", arg |-> EmptyDict, out |-> Returned(<<>>)]

\* nothing was analysed or exported
AIdle ==
    /\ rust_available = TRUE
    /\ analysis = NoAnalysis
    /\ file = PyNone

\* without the extension nothing is ever recorded
AInit ==
    /\ rust_available \in BOOLEAN
    /\ profiler \in IF rust_available
                    THEN {RunEvents(seq) : seq \in EventSeqs}
                    ELSE {NewProfiler}
    /\ scopes = <<>>
    /\ pending = FALSE
    /\ log = <<>>
    /\ analysis = NoAnalysis
    /\ file = PyNone

\* the analyses read the snapshot and change nothing: a behaviour makes its
\* exports and then one analysis
DetectBottlenecks ==
    /\ analysis.fn \in {"", "export_profile"}
    /\ \E t \in Thresholds :
          analysis' = [fn |-> "detect_bottlenecks",
                       arg |-> [threshold |-> t],
                       out |-> detect_bottlenecks(
                                  current_report(rust_available, profiler, None),
                                  t)]
    /\ UNCHANGED <<rust_available, file>>

GetRecommendations ==
    /\ analysis.fn \in {"", "export_profile"}
    /\ analysis' = [fn |-> "get_recommendations",
                    arg |-> EmptyDict,
                    out |-> get_recommendations(
                               current_report(rust_available, profiler, None))]
    /\ UNCHANGED <<rust_available, file>>

DetectRegressions ==
    /\ analysis.fn \in {"", "export_profile"}
    /\ \E i \in DOMAIN Baselines, t \in Thresholds :
          analysis' = [fn |-> "detect_regressions",
                       arg |-> [baseline |-> Baselines[i], threshold |-> t],
                       out |-> detect_regressions(
                                  current_report(rust_available, profiler, None),
                                  Baselines[i], t)]
    /\ UNCHANGED <<rust_available, file>>

ExportProfile ==
    /\ analysis.fn \in {"", "export_profile"}
    /\ \E format \in Formats, context \in {None, "scope_a"} :
          /\ file' = export_profile(rust_available, profiler, file,
                                    format, context)
          /\ analysis' = [fn |-> "export_profile",
                          arg |-> [format |-> format, context |-> context],
                          out |-> Returned(<<>>)]
    /\ UNCHANGED rust_available

\* with open(filename) as f: json.load(f), right after a JSON export
LoadJson ==
    /\ analysis.fn = "export_profile"
    /\ analysis.arg.format = "json"
    /\ file.t = "file"
    /\ analysis' = [fn |-> "json.load", arg |-> analysis.arg,
                    out |-> Returned(json_load(file.v))]
    /\ UNCHANGED <<rust_available, file>>

ANext ==
    \/ DetectBottlenecks
    \/ GetRecommendations
    \/ DetectRegressions
    \/ ExportProfile
    \/ LoadJson

(***************************************************************************)
(* Actions of the recorder specification: kernels of either backend call   *)
(* record(op_name, duration, backend); log keeps the calls made since the  *)
(* table was last cleared                                                  *)
(***************************************************************************)
Backends == {"CPU", "GPU"}

RInit ==
    /\ profiler = enable_profiling(NewProfiler)
    /\ scopes = <<>>
    /\ pending = FALSE
    /\ log = <<>>

RecordCall ==
    /\ Len(log) < MaxCalls
    /\ \E op \in OpNames, d \in Durations, backend \in Backends :
          /\ profiler' = record(profiler, op, d, backend)
          /\ log' = Append(log, EventOn(op, None, d, backend))
    /\ UNCHANGED <<scopes, pending>>

ClearCall ==
    /\ profiler' = clear_profile(profiler)
    /\ log' = <<>>
    /\ UNCHANGED <<scopes, pending>>

RNext ==
    \/ RecordCall
    \/ ClearCall

(***************************************************************************)
(* Actions of the thread specification: two threads enter and leave        *)
(* ProfileContext blocks and run kernels against the one shared table       *)
(***************************************************************************)
Threads == {"main", "worker"}

\* variant: one cell for the whole process
_set_process_context(cells, thread, ctx) == [u \in DOMAIN cells |-> ctx]

\* the context cell is thread-local: a write reaches the writer's cell only
_set_thread_context(cells, thread, ctx) == [cells EXCEPT ![thread] = ctx]

\* the extension as the calling thread sees it
OnThread(p, cells, thread) == [p EXCEPT !.context = cells[thread]]

TIdle == thread_context = [t \in Threads |-> None]

TInit ==
    /\ profiler = enable_profiling(NewProfiler)
    /\ scopes = <<>>
    /\ pending = FALSE
    /\ log = <<>>
    /\ TIdle

ThreadEntry(thread, op, arg) == [thread |-> thread, op |-> op, arg |-> arg]

\* the last scope step of the thread in the log was an entry
InScope(thread) ==
    LET Mine(e) == e.thread = thread /\ e.op \in {"enter", "exit"}
        mine == SelectSeq(log, Mine)
    IN  mine # <<>> /\ Last(mine).op = "enter"

ThreadEnter ==
    /\ Len(log) < MaxThreadSteps
    /\ \E t \in Threads, name \in Labels :
          /\ ~InScope(t)
          /\ thread_context' =
                _set_thread_context(
                    thread_context, t,
                    ProfileContext__enter__(
                        OnThread(profiler, thread_context, t), name).context)
          /\ log' = Append(log, ThreadEntry(t, "enter", name))
    /\ UNCHANGED <<profiler, scopes, pending>>

ThreadExit ==
    /\ Len(log) < MaxThreadSteps
    /\ \E t \in Threads :
          /\ InScope(t)
          /\ thread_context' =
                _set_thread_context(
                    thread_context, t,
                    ProfileContext__exit__(
                        OnThread(profiler, thread_context, t), FALSE)
                        .state.context)
          /\ log' = Append(log, ThreadEntry(t, "exit", None))
    /\ UNCHANGED <<profiler, scopes, pending>>

ThreadDispatch ==
    /\ Len(log) < MaxThreadSteps
    /\ \E t \in Threads, op \in OpNames :
          /\ profiler' =
                [tensor_op(OnThread(profiler, thread_context, t), op, 1)
                    EXCEPT !.context = profiler.context]
          /\ log' = Append(log, ThreadEntry(t, "dispatch", op))
    /\ UNCHANGED <<scopes, pending, thread_context>>

TNext ==
    \/ ThreadEnter
    \/ ThreadExit
    \/ ThreadDispatch

Init == PInit /\ SIdle /\ DIdle /\ AIdle /\ TIdle

Next ==
    PNext /\ UNCHANGED svars /\ UNCHANGED dvars /\ UNCHANGED avars
          /\ UNCHANGED tvars

Spec == Init /\ [][Next]_vars

SelInit == PInit /\ SInit /\ DIdle /\ AIdle /\ TIdle

SelNext ==
    SNext /\ UNCHANGED <<pvars, explanation, operands, outcome>>
          /\ UNCHANGED avars /\ UNCHANGED tvars

SpecSelect == SelInit /\ [][SelNext]_vars

DispInit == PInit /\ DInit /\ AIdle /\ TIdle

DispNext == DNext /\ UNCHANGED avars /\ UNCHANGED tvars

SpecDispatch == DispInit /\ [][DispNext]_vars

AnalyzeInit == AInit /\ SIdle /\ DIdle /\ TIdle

AnalyzeNext == ANext /\ UNCHANGED <<pvars, svars, dvars, tvars>>

SpecAnalyze == AnalyzeInit /\ [][AnalyzeNext]_vars

RecordInit == RInit /\ SIdle /\ DIdle /\ AIdle /\ TIdle

RecordNext == RNext /\ UNCHANGED <<svars, dvars, avars, tvars>>

SpecRecord == RecordInit /\ [][RecordNext]_vars

ThreadInit == TInit /\ SIdle /\ DIdle /\ AIdle

ThreadNext == TNext /\ UNCHANGED <<svars, dvars, avars>>

SpecThreads == ThreadInit /\ [][ThreadNext]_vars

(***************************************************************************)
(* What the history of API calls says, independently of the profiler state *)
(***************************************************************************)
\* the flag the calls in l leave behind: the last enable/disable decides
FlagAfter(l) ==
    LET I == {i \in 1..Len(l) : l[i].op \in {"enable", "disable"}}
    IN  IF I = {} THEN FALSE
        ELSE l[CHOOSE i \in I : \A j \in I : j <= i].op = "enable"

\* position of the most recent clear_profile in l, 0 if there is none
LastClear(l) ==
    LET I == {i \in 1..Len(l) : l[i].op = "clear"}
    IN  IF I = {} THEN 0 ELSE CHOOSE i \in I : \A j \in I : j <= i

\* the scope labels open after the calls in l, innermost last
RECURSIVE ScopesAfter(_)
ScopesAfter(l) ==
    IF l = <<>> THEN <<>>
    ELSE LET s == ScopesAfter(Front(l))
             e == Last(l)
         IN  IF e.op \in {"enter", "call"} THEN Append(s, e.arg)
             ELSE IF e.op \in {"exit", "raise"} THEN Front(s)
             ELSE s

\* label of the innermost open scope, None outside every scope
TopLabel(l) == IF ScopesAfter(l) = <<>> THEN None ELSE Last(ScopesAfter(l))

\* positions of the calls of kind op with argument arg made while Enabled
\* since the most recent clear_profile
Counted(l, op, arg) ==
    {i \in (LastClear(l) + 1)..Len(l) :
        /\ l[i].op = op
        /\ l[i].arg = arg
        /\ FlagAfter(SubSeq(l, 1, i - 1))}

Report(c) == profile_report(profiler, c, "dict")

ReportedCount(name, c) ==
    IF name \in DOMAIN Report(c).operations
    THEN Report(c).operations[name].count
    ELSE 0

\* the last call made was of kind op
JustDid(op) == log # <<>> /\ Last(log).op = op

\* the last two calls made were of kinds op1, op2
JustDid2(op1, op2) ==
    /\ Len(log) >= 2
    /\ log[Len(log) - 1].op = op1
    /\ Last(log).op = op2

\* this step makes an API call of kind op
StepIs(op) == Len(log') = Len(log) + 1 /\ Last(log').op = op

(***************************************************************************)
(* C1: the count reported for an operation name equals the number of       *)
(* dispatches of that name made while the profiler was Enabled since the   *)
(* most recent clear_profile.                                              *)
(***************************************************************************)
C1_CountIsEnabledDispatches ==
    \A name \in OpNames :
        ReportedCount(name, None) = Cardinality(Counted(log, "dispatch", name))

C1_Witness ==
    /\ LastClear(log) > 0
    /\ Counted(SubSeq(log, 1, LastClear(log) - 1), "dispatch", "add") # {}
    /\ Cardinality(Counted(log, "dispatch", "add")) = 2

(***************************************************************************)
(* C2: while the profiler is Disabled a dispatch leaves the aggregate      *)
(* table exactly as it was: no record appears and every record collected   *)
(* before keeps its count in the report.                                   *)
(***************************************************************************)
C2_DisabledDispatchIsNoOp ==
    [][(~FlagAfter(log) /\ StepIs("dispatch")) =>
          /\ profiler'.table = profiler.table
          /\ \A c \in Labels \cup Funcs \cup {None} :
                profile_report(profiler', c, "dict")
                    = profile_report(profiler, c, "dict")]_vars

C2_Witness ==
    /\ JustDid2("disable", "dispatch")
    /\ ReportedCount("add", None) >= 1

(***************************************************************************)
(* C3: right after clear_profile, in either state of the flag, the report  *)
(* has no operations and a total time of 0.                                *)
(***************************************************************************)
C3_ClearEmptiesReport ==
    JustDid("clear") =>
        \A c \in Labels \cup Funcs \cup {None} :
            /\ DOMAIN Report(c).operations = {}
            /\ Report(c).total_time_ms = 0

C3_Witness ==
    /\ JustDid("clear")
    /\ \E name \in OpNames : Counted(Front(log), "dispatch", name) # {}

(***************************************************************************)
(* C4: clear_profile leaves the enabled flag alone: an operation           *)
(* dispatched right after it is recorded exactly when the profiler was     *)
(* Enabled before the clear.                                               *)
(***************************************************************************)
C4_ClearKeepsFlag ==
    JustDid2("clear", "dispatch") =>
        LET before == FlagAfter(SubSeq(log, 1, Len(log) - 2))
        IN  /\ profiler.enabled = before
            /\ ReportedCount(Last(log).arg, None) = IF before THEN 1 ELSE 0

C4_Witness ==
    /\ JustDid2("clear", "dispatch")
    /\ FlagAfter(SubSeq(log, 1, Len(log) - 2))
    /\ ReportedCount(Last(log).arg, None) = 1

(***************************************************************************)
(* C5: with nested scopes, leaving the inner scope makes the enclosing     *)
(* scope's label current again: an operation recorded after the inner      *)
(* block ends, still inside the outer block, is tagged with the outer      *)
(* label.                                                                  *)
(***************************************************************************)
C5_InnerExitRestoresOuter ==
    (JustDid2("exit", "dispatch") /\ FlagAfter(log) /\ scopes # <<>>) =>
        /\ profiler.context = Last(scopes)
        /\ <<Last(log).arg, Last(scopes)>> \in DOMAIN profiler.table

(***************************************************************************)
(* C6: when the body of a scope raises, the scope's label is no longer the *)
(* current context once control has left the scope, the exception goes on  *)
(* to the caller, and an operation recorded next is not tagged with that   *)
(* label.                                                                  *)
(***************************************************************************)
C6_RaiseReleasesLabel ==
    [][/\ StepIs("raise") =>
            /\ profiler'.context # Last(log').arg
            /\ scopes' = Front(scopes)
            /\ pending'
       /\ (JustDid("raise") /\ StepIs("dispatch")) =>
            \A op \in OpNames :
                LET key == <<op, Last(log).arg>>
                IN  /\ key \in DOMAIN profiler'.table => key \in DOMAIN profiler.table
                    /\ key \in DOMAIN profiler.table =>
                          profiler'.table[key] = profiler.table[key]]_vars

C6_Witness ==
    /\ JustDid2("raise", "dispatch")
    /\ FlagAfter(log)
    /\ \E k \in DOMAIN profiler.table : k[2] = log[Len(log) - 1].arg
    /\ <<Last(log).arg, None>> \in DOMAIN profiler.table

(***************************************************************************)
(* C7: the report filtered by context c holds exactly the operations       *)
(* dispatched, while Enabled, with c the label of the innermost open       *)
(* scope.                                                                  *)
(***************************************************************************)
DispatchedUnder(l, name, c) ==
    {i \in Counted(l, "dispatch", name) : TopLabel(SubSeq(l, 1, i - 1)) = c}

C7_FilterIsExact ==
    \A c \in Labels \cup Funcs, name \in OpNames :
        name \in DOMAIN Report(c).operations
            <=> DispatchedUnder(log, name, c) # {}

(***************************************************************************)
(* C8: each call, while Enabled, of a function decorated with              *)
(* @profile_operation adds one to the count of the report record keyed by  *)
(* the function's name.                                                    *)
(***************************************************************************)
C8_DecoratedCallsCounted ==
    \A f \in Funcs :
        ReportedCount(f, None) = Cardinality(Counted(log, "call", f))

(***************************************************************************)
(* C9: an explicitly requested backend is the only backend selection can   *)
(* return: under every policy, operation kind and element count the        *)
(* outcome is the requested backend when device_info has it, and           *)
(* DeviceNotFoundError otherwise.                                          *)
(***************************************************************************)
\* the machine has backend b
Has(b) == b = CPU \/ (b = GPU /\ device_info.has_gpu)

\* the arguments of Tensor(...) ask for backend b
AsksFor(c, b) ==
    \/ /\ b = GPU
       /\ c.device \in {Str("gpu"), Str("cuda:0")}
    \/ /\ b = CPU
       /\ c.device = Str("cpu")
    \/ /\ c.device \in {PyNone, Str("")}
       /\ \/ c.backend = b
          \/ c.backend.t = "str" /\ Lower(c.backend.v) = b.v

C9_ExplicitRequestWins ==
    /\ (call.fn = "select_backend" /\ call.done /\ call.requested # PyNone) =>
          selection = IF Has(call.requested)
                      THEN call.requested
                      ELSE Raised("DeviceNotFoundError")
    /\ \A b \in {CPU, GPU} :
          (call.fn = "Tensor" /\ call.done /\ AsksFor(call, b)) =>
              IF Has(b)
              THEN tensor.ok /\ tensor.backend_type = b
              ELSE ~tensor.ok /\ tensor.error = "DeviceNotFoundError"

C9_Witness ==
    /\ call.fn = "Tensor"
    /\ call.done
    /\ call.policy = BackendPolicy.CUDA
    /\ call.backend = CPU
    /\ call.device = PyNone
    /\ device_info.has_gpu
    /\ tensor.ok
    /\ tensor.element_count >= SizeThreshold
    /\ tensor.backend_type = CPU

(***************************************************************************)
(* C10: under policy DEFAULT with no explicit request, an operation on     *)
(* fewer elements than the size threshold gets the CPU backend, whatever   *)
(* the operation kind and the devices present.                             *)
(***************************************************************************)
\* number of scalars held by a value
RECURSIVE Leaves(_)
Leaves(d) ==
    CASE d.t = "list" ->
            LET n == [i \in 1..Len(d.v) |-> Leaves(d.v[i])]
            IN  SumOver(1..Len(d.v), n)
      [] d.t = "bytes" -> d.v
      [] OTHER -> 1

C10_SmallGoesToCPU ==
    /\ (/\ call.fn = "select_backend"
        /\ call.done
        /\ call.policy = BackendPolicy.DEFAULT
        /\ call.requested = PyNone
        /\ call.element_count < 16) => selection = CPU
    /\ (/\ call.fn = "Tensor"
        /\ call.done
        /\ call.policy = BackendPolicy.DEFAULT
        /\ call.backend = PyNone
        /\ call.device \in {PyNone, Str("")}
        /\ Leaves(call.data) < 16) => (tensor.ok /\ tensor.backend_type = CPU)

C10_Witness ==
    /\ call.fn = "Tensor"
    /\ call.done
    /\ call.policy = BackendPolicy.DEFAULT
    /\ call.backend = PyNone
    /\ call.device = PyNone
    /\ "COMPUTE_VECTOR" \in device_info.gpu_kinds
    /\ Len(tensor.shape) = 2
    /\ Leaves(call.data) = 15
    /\ tensor.backend_type = CPU

(***************************************************************************)
(* Policies, tensor operations and the dispatch explanation                *)
(***************************************************************************)
Succeeded(o) == IsTensor(o.out) /\ o.out.ok

BlasPolicies == {BackendPolicy.OPENBLAS, BackendPolicy.BLAS}

C14_MismatchRaisesBackendError ==
    (outcome.op \in BinaryOps \cup {"matmul"}
        /\ IsTensor(operands.b)
        /\ operands.a.backend_type # operands.b.backend_type)
    => outcome.out = Failed("BackendError")

C16_ExplainsMostRecentOnly ==
    Succeeded(outcome)
    => /\ explanation.op = outcome.op
       /\ explanation.backend = outcome.path
       /\ shown # PyNone =>
             shown.v = <<outcome.op, " -> ", outcome.path, " (",
                         Reason(outcome.op, outcome.policy), ")">>

\* a subtraction dispatched after an addition that the profiler recorded
C16_Witness ==
    /\ Succeeded(outcome)
    /\ outcome.op = "sub"
    /\ <<"add", None>> \in DOMAIN profiler.table
    /\ shown # PyNone
    /\ shown.v[1] = "sub"

(***************************************************************************)
(* Analysis and export, stated over the aggregate table itself             *)
(***************************************************************************)
NamesIn(p) == {k[1] : k \in DOMAIN p.table}

TotalOf(p, n) ==
    LET K == {k \in DOMAIN p.table : k[1] = n}
    IN  SumOver(K, [k \in K |-> p.table[k].total_time])

CountFor(p, n) ==
    LET K == {k \in DOMAIN p.table : k[1] = n}
    IN  SumOver(K, [k \in K |-> p.table[k].count])

GrandTotal(p) ==
    SumOver(DOMAIN p.table, [k \in DOMAIN p.table |-> p.table[k].total_time])

\* the names of the entries of a returned list, and whether each is named once
Reported(out) == {out.value[i].operation : i \in 1..Len(out.value)}
OncePerName(out) == Cardinality(Reported(out)) = Len(out.value)

NoOperations(b) == "operations" \notin DOMAIN b \/ DOMAIN b.operations = {}

\* C19: on an empty aggregate table detect_bottlenecks, get_recommendations
\* and detect_regressions return an empty list without raising, for every
\* threshold; detect_regressions does so too when the baseline is empty or
\* has no operations.
C19_EmptyInEmptyOut ==
    /\ (analysis.fn \in {"detect_bottlenecks", "get_recommendations",
                          "detect_regressions"}
          /\ DOMAIN profiler.table = {})
       => (analysis.out.error = "" /\ Len(analysis.out.value) = 0)
    /\ (analysis.fn = "detect_regressions"
          /\ NoOperations(analysis.arg.baseline))
       => (analysis.out.error = "" /\ Len(analysis.out.value) = 0)

\* an empty baseline against an empty table
C19_Witness ==
    /\ analysis.fn = "detect_regressions"
    /\ DOMAIN analysis.arg.baseline = {}
    /\ DOMAIN profiler.table = {}
    /\ analysis.out = Returned(<<>>)

SnapshotNames(c) ==
    IF ~rust_available THEN {}
    ELSE {k[1] : k \in {q \in DOMAIN profiler.table : c = None \/ q[2] = c}}

RatAdd(x, y) == Ratio(x.num * y.den + y.num * x.den, x.den * y.den)

RECURSIVE RatSum(_)
RatSum(seq) ==
    IF seq = <<>> THEN Ratio(0, 1)
    ELSE RatAdd(RatSum(Front(seq)), Last(seq))

\* the percent_total column of the snapshot filtered by context c
PercentColumn(c) ==
    LET ops == OperationsOf(current_report(rust_available, profiler, c))
    IN  [i \in 1..Len(ops) |-> ops[i].percent_total]

\* C22: in every snapshot whose grand total is greater than zero the
\* percent_total values of all operations sum to 100.
C22_PercentagesSumToHundred ==
    \A c \in {None, "scope_a"} :
        current_report(rust_available, profiler, c).total_time_ms > 0
        => RatEq(RatSum(PercentColumn(c)), Ratio(100, 1))

\* a snapshot of two operations with unequal shares: 25 and 75 percent
C22_Witness ==
    /\ analysis.fn = "detect_bottlenecks"
    /\ analysis.arg.threshold = Ratio(0, 1)
    /\ current_report(rust_available, profiler, None).total_time_ms = 4
    /\ Len(analysis.out.value) = 2
    /\ \E i \in 1..2 : RatEq(analysis.out.value[i].percent_total, Ratio(25, 1))

\* C25 as stated: get_recommendations() returns the accelerator-migration
\* recommendation exactly when the snapshot holds a matmul record whose
\* primary_backend is CPU and whose avg_time_ms exceeds 10, and every
\* recommendation has exactly the fields priority, title, description,
\* estimated_speedup and example.
C25_RecommendationHasExampleField ==
    analysis.fn = "get_recommendations"
    => \A i \in 1..Len(analysis.out.value) :
          DOMAIN analysis.out.value[i] =
              {"priority", "title", "description", "estimated_speedup",
               "example"}

\* matmul was recorded mostly on the CPU and took more than 10 ms on average
SlowCpuMatmul ==
    /\ rust_available
    /\ "matmul" \in NamesIn(profiler)
    /\ TotalOf(profiler, "matmul") > 10 * CountFor(profiler, "matmul")
    /\ LET seen == profiler.observed["matmul"]
           Times(b) == SumOver({i \in 1..Len(seen) : seen[i].backend = b},
                               [i \in 1..Len(seen) |-> seen[i].count])
       IN  \/ Times("CPU") > Times("GPU")
           \/ Times("CPU") = Times("GPU") /\ seen[1].backend = "CPU"

\* C25 amended: the same, with the fifth field named code_example.
C25_RecommendsGpuForSlowCpuMatmul ==
    analysis.fn = "get_recommendations"
    => /\ analysis.out.error = ""
       /\ Len(analysis.out.value) = (IF SlowCpuMatmul THEN 1 ELSE 0)
       /\ \A i \in 1..Len(analysis.out.value) :
             /\ DOMAIN analysis.out.value[i] =
                    {"priority", "title", "description", "estimated_speedup",
                     "code_example"}
             /\ analysis.out.value[i].title =
                    "Enable GPU for Matrix Multiplication"

\* a matmul first seen on the CPU, 11 ms on average, gets the recommendation
C25_Witness ==
    /\ analysis.fn = "get_recommendations"
    /\ SlowCpuMatmul
    /\ Len(analysis.out.value) = 1
    /\ "code_example" \in DOMAIN analysis.out.value[1]

\* C28: export_profile(path, 'flamegraph') of a non-empty snapshot writes
\* one frame per operation, laid end to end: the first starts at 0, each
\* starts where the previous one ended and spans its operation's total time,
\* so that the last ends at the sum of all totals.
C28_FlamegraphFramesEndToEnd ==
    (/\ analysis.fn = "export_profile"
     /\ analysis.arg.format = "flamegraph"
     /\ SnapshotNames(analysis.arg.context) # {})
    => LET doc == LoadObject(file.v.members)
           ops == OperationsOf(current_report(rust_available, profiler,
                                              analysis.arg.context))
           total == [i \in 1..Len(ops) |-> ops[i].total_time_ms]
       IN  /\ "events" \in DOMAIN doc
           /\ Len(doc.events) = Len(ops)
           /\ doc.events[1].at = 0
           /\ \A i \in 2..Len(ops) :
                 doc.events[i].at = doc.events[i - 1].at + total[i - 1]
           /\ doc.events[Len(ops)].at + total[Len(ops)] =
                  SumOver(1..Len(ops), total)

\* the label the thread is inside of, going by the scope steps it has logged
LabelOf(thread, lg) ==
    LET Mine(e) == e.thread = thread /\ e.op \in {"enter", "exit"}
        mine == SelectSeq(lg, Mine)
    IN  IF mine # <<>> /\ Last(mine).op = "enter" THEN Last(mine).arg ELSE None

\* the count held under key, 0 if there is no such record
CountAt(p, key) == IF key \in DOMAIN p.table THEN p.table[key].count ELSE 0

\* C24: the context label is per thread: an operation recorded by a thread
\* is tagged with the label that thread itself is inside of (none if it is
\* inside no scope), whatever the other thread entered, and a thread
\* entering or leaving a scope never changes the label of the other.
C24_ContextLabelIsPerThread ==
    [][\A t \in Threads :
          /\ (\E op \in OpNames :
                 log' = Append(log, ThreadEntry(t, "dispatch", op)))
             => LET key == <<Last(log').arg, LabelOf(t, log)>>
                IN  /\ CountAt(profiler', key) = CountAt(profiler, key) + 1
                    /\ \A k \in (DOMAIN profiler'.table) \ {key} :
                          CountAt(profiler', k) = CountAt(profiler, k)
          /\ (\E e \in {"enter", "exit"}, name \in Labels \cup {None} :
                 log' = Append(log, ThreadEntry(t, e, name)))
             => \A u \in Threads \ {t} :
                   /\ thread_context'[u] = thread_context[u]
                   /\ thread_context'[u] = LabelOf(u, log')]_vars

\* the worker is inside scope_a; main entered scope_b and left it; the
\* worker's add is then recorded under scope_a
C24_Witness ==
    /\ Len(log) = 4
    /\ log[1] = ThreadEntry("worker", "enter", "scope_a")
    /\ log[2] = ThreadEntry("main", "enter", "scope_b")
    /\ log[3] = ThreadEntry("main", "exit", None)
    /\ log[4] = ThreadEntry("worker", "dispatch", "add")
    /\ DOMAIN profiler.table = {<<"add", "scope_a">>}

\* C26: the profiler starts Disabled; enable_profiling and disable_profiling
\* set the flag and leave every record as it was, and calling either a
\* second time in a row changes nothing at all.
C26_TogglesAreIdempotent ==
    /\ ~profiler.enabled
    /\ [][/\ log' = Append(log, Entry("enable", None))
             => /\ profiler'.enabled
                /\ profiler'.table = profiler.table
                /\ JustDid("enable") => profiler' = profiler
          /\ log' = Append(log, Entry("disable", None))
             => /\ ~profiler'.enabled
                /\ profiler'.table = profiler.table
                /\ JustDid("disable") => profiler' = profiler]_vars

\* disable_profiling() twice in a row with a record in the table
C26_Witness ==
    /\ Len(log) >= 2
    /\ log[Len(log)].op = "disable"
    /\ log[Len(log) - 1].op = "disable"
    /\ ~profiler.enabled
    /\ DOMAIN profiler.table # {}

\* the calls of the recorder specification made for name, in order
CallsOf(name) ==
    LET Named(e) == e.op = name
    IN  SelectSeq(log, Named)

\* how often name ran on backend b, and where it first did
TimesOn(name, b) ==
    Cardinality({i \in 1..Len(CallsOf(name)) : CallsOf(name)[i].backend = b})
FirstOn(name, b) ==
    CHOOSE i \in 1..Len(CallsOf(name)) :
        /\ CallsOf(name)[i].backend = b
        /\ \A j \in 1..(i - 1) : CallsOf(name)[j].backend # b

\* C27: a record's primary_backend is the backend observed most often for
\* its name; among backends observed equally often it is the one observed
\* first.
C27_PrimaryBackendIsMostFrequent ==
    LET ops == profile_report(profiler, None, "dict").operations
    IN  /\ DOMAIN ops = {log[i].op : i \in 1..Len(log)}
        /\ \A n \in DOMAIN ops :
              LET b == ops[n].primary_backend
              IN  /\ TimesOn(n, b) > 0
                  /\ \A c \in Backends \ {b} :
                        \/ TimesOn(n, c) < TimesOn(n, b)
                        \/ /\ TimesOn(n, c) = TimesOn(n, b)
                           /\ FirstOn(n, b) < FirstOn(n, c)

\* add ran twice on each backend, first on the GPU and last on the CPU
C27_Witness ==
    /\ Len(CallsOf("add")) = 4
    /\ TimesOn("add", "CPU") = 2
    /\ CallsOf("add")[1].backend = "GPU"
    /\ CallsOf("add")[4].backend = "CPU"
    /\ profile_report(profiler, None, "dict").operations["add"]
           .primary_backend = "GPU"

\* C29: in every reachable state of the profiler every record has
\* count >= 1, min_time <= max_time and
\* count * min_time <= total_time <= count * max_time; right after
\* clear_profile() the table holds no record at all.
C29_RecordsAreWellFormed ==
    /\ \A k \in DOMAIN profiler.table :
          LET r == profiler.table[k]
          IN  /\ r.count >= 1
              /\ r.min_time <= r.max_time
              /\ r.count * r.min_time <= r.total_time
              /\ r.total_time <= r.count * r.max_time
    /\ JustDid("clear") => DOMAIN profiler.table = {}

\* after a clear, a record of two calls of different durations
C29_Witness ==
    /\ \E i \in 1..Len(log) : log[i].op = "clear"
    /\ \E k \in DOMAIN profiler.table :
          /\ profiler.table[k].count = 2
          /\ profiler.table[k].min_time < profiler.table[k].max_time

\* C30: for a tensor t and a Python number s, t + s, t - s, t * s and t / s
\* never fail with BackendError: the tensor made of the scalar is on the
\* backend of t, also when t was created with backend= rather than device=.
C30_ScalarOperandNeverBackendError ==
    (/\ outcome.op \in BinaryOps
     /\ ~IsTensor(operands.b))
    => outcome.out.error # "BackendError"

\* the product of the entries of a shape; 1 for the empty shape
RECURSIVE ProductOf(_)
ProductOf(shape) ==
    IF Len(shape) = 0 THEN 1
    ELSE ProductOf(SubSeq(shape, 1, Len(shape) - 1)) * shape[Len(shape)]

\* C23: for every tensor built from a supported input (flat or nested list
\* or tuple, empty and ragged ones included, bytes, memoryview, array-like,
\* scalar) the element count handed to the selector equals the product of
\* the dimensions of its shape.
C23_ElementCountIsProductOfShape ==
    (call.fn = "Tensor" /\ call.done /\ tensor.ok)
    => /\ tensor.element_count = ProductOf(tensor.shape)
       /\ tensor.shape = ShapeOf(call.data)

\* a ragged list [[1, 1], [1, 1, 1]]: shape (2, 2), four elements counted
C23_Witness ==
    /\ call.fn = "Tensor"
    /\ call.done
    /\ call.data = List(<<Flat(2), Flat(3)>>)
    /\ tensor.ok
    /\ tensor.shape = <<2, 2>>
    /\ tensor.element_count = 4

====
